---------------------------- MODULE Spec2Model ----------------------------
(***************************************************************************)
(* Nonogram line solver and grid propagator (src/src/lib.rs).              *)
(*                                                                         *)
(* Two specifications share the module:                                    *)
(*   LineSpec  - generate_possibilities and solve_line applied to one      *)
(*               (line_size, rule, user_line) drawn from bounded sets;     *)
(*   Spec      - solve_puzzle stepping through its row loop, its column    *)
(*               loop and its end-of-iteration checks, followed by an      *)
(*               optional second invocation on the first call's grid.      *)
(*                                                                         *)
(* Indices (block_index, start_index, i, r, c, iteration) are 0-based as   *)
(* in the source; TLA+ sequences are 1-based, so element k of a Vec is     *)
(* seq[k + 1].                                                             *)
(***************************************************************************)
EXTENDS Integers, Sequences, FiniteSets, TLC

VARIABLES
    \* ---- solve_puzzle ----
    rows, cols, row_rules, col_rules,   \* the arguments of solve_puzzle
    initial_grid,                       \* initial_grid_js as deserialized
    original_grid,                      \* let original_grid = current_grid.clone()
    current_grid,                       \* let mut current_grid
    transposed,                         \* let mut transposed (column phase)
    iteration,                          \* let mut iteration
    changed_in_this_iteration,
    r, c,                               \* loop indices of the two for loops
    pc,                                 \* "rows" | "cols" | "done" | "panic" | "idle"
    result,                             \* the SolveResult returned
    call,                               \* 1: first invocation, 2: re-invocation on its output
    first_result,                       \* the SolveResult of invocation 1
    picture,                            \* the picture the clues were read from (PictureSpec), else << >>
    \* ---- one line ----
    line_size, rule, user_line,         \* the arguments of solve_line
    possibilities,                      \* what generate_possibilities returned
    line_result,                        \* what solve_line returned
    enumerated, solved                  \* whether each has been called

vars == << rows, cols, row_rules, col_rules, initial_grid, original_grid,
           current_grid, transposed, iteration, changed_in_this_iteration,
           r, c, pc, result, call, first_result, picture,
           line_size, rule, user_line, possibilities, line_result,
           enumerated, solved >>

puzzle_vars == << rows, cols, row_rules, col_rules, initial_grid, original_grid,
                  current_grid, transposed, iteration, changed_in_this_iteration,
                  r, c, pc, result, call, first_result, picture >>

line_vars == << line_size, rule, user_line, possibilities, line_result,
                enumerated, solved >>

----------------------------------------------------------------------------
(* Bounds of the model *)

MaxLineSize == 5      \* LineSpec: line_size in 0..MaxLineSize
MaxClueLen  == 3      \* LineSpec: at most this many blocks in a rule
MaxBlock    == 2      \* LineSpec: block lengths in 0..MaxBlock
MaxRows     == 2      \* Spec: rows in 0..MaxRows
MaxCols     == 2      \* Spec: cols in 0..MaxCols
MaxSpace    == 3      \* Spec: rules of positive blocks needing at most this many cells
MaxPicRows  == 3      \* PictureSpec: pictures of 1..MaxPicRows rows
MaxPicCols  == 3      \* PictureSpec: and 1..MaxPicCols columns
MaxGiven    == 2      \* PictureSpec: at most this many cells of the picture are given

----------------------------------------------------------------------------
(* CellState *)

Empty   == 0
Filled  == 1
Crossed == 2

CellState == {Empty, Filled, Crossed}

----------------------------------------------------------------------------
(* Helpers over sequences *)

RECURSIVE SumSeq(_)
SumSeq(s) == IF s = << >> THEN 0 ELSE Head(s) + SumSeq(Tail(s))

\* rule[from..] of the source (0-based from)
SliceFrom(s, from) == [k \in 1..(Len(s) - from) |-> s[k + from]]

\* vec![v; n]
Repeat(v, n) == [k \in 1..n |-> v]

RECURSIVE SeqsUpTo(_, _)
SeqsUpTo(S, n) ==
    IF n = 0 THEN { << >> }
    ELSE LET shorter == SeqsUpTo(S, n - 1)
         IN  shorter \cup { Append(s, x) : s \in { t \in shorter : Len(t) = n - 1 }, x \in S }

SeqsOfLen(S, n) == [1..n -> S]

----------------------------------------------------------------------------
(* generate_possibilities *)

\* The value of a call that panicked (arithmetic overflow or index out of bounds).
Fault == [fault |-> TRUE, sols |-> << >>]

\* space_for_remaining
SpaceForRemaining(rl, block_index) ==
    IF block_index + 1 < Len(rl)
    THEN SumSeq(SliceFrom(rl, block_index + 1)) + (Len(rl) - 1 - block_index)
    ELSE 0

\* for j in 0..block_length { current_arrangement[i + j] = v }
SetBlock(current_arrangement, i, block_length, v) ==
    [k \in 1..Len(current_arrangement) |->
        IF (k - 1) >= i /\ (k - 1) < i + block_length THEN v ELSE current_arrangement[k]]

\* Mutant of next_start: the separator cell between consecutive blocks forgotten.
next_start_NoSeparator(i, block_length) == i + block_length

\* let next_start = i + block_length + 1;
next_start(i, block_length) == i + block_length + 1

\* Mutant of LatestStart: the last start index left out.
LatestStart_OffByOne(size, space_for_remaining, block_length) ==
    size - space_for_remaining - block_length - 1

\* let latest_start = size - space_for_remaining - block_length;  (as an integer:
\* negative where the usize subtraction underflows)
LatestStart(size, space_for_remaining, block_length) ==
    size - space_for_remaining - block_length

RECURSIVE recurse(_, _, _, _, _)
RECURSIVE PlaceLoop(_, _, _, _, _, _)

\* The body of `for i in start_index..=latest_start`, from index i on.
PlaceLoop(size, rl, block_index, i, latest_start, current_arrangement) ==
    IF i > latest_start THEN [fault |-> FALSE, sols |-> << >>]
    ELSE
      LET block_length == rl[block_index + 1]
      IN  IF block_length > 0 /\ i + block_length > size
          THEN Fault                                \* current_arrangement[i + j] out of bounds
          ELSE
            LET placed   == SetBlock(current_arrangement, i, block_length, 1)
                inner    == recurse(size, rl, block_index + 1, next_start(i, block_length), placed)
                unplaced == SetBlock(placed, i, block_length, 0)
            IN  IF inner.fault THEN Fault
                ELSE LET rest == PlaceLoop(size, rl, block_index, i + 1, latest_start, unplaced)
                     IN  IF rest.fault THEN Fault
                         ELSE [fault |-> FALSE, sols |-> inner.sols \o rest.sols]

\* fn recurse.  latest_start = size - space_for_remaining - block_length is a usize
\* subtraction.  When it is negative the call panics: with overflow checks at the
\* subtraction itself; without them latest_start wraps to a value near 2^w, the
\* loop runs past `size` and, the block having positive length, the write
\* current_arrangement[i + j] panics on its bounds check.  (A zero-length block at
\* an underflowing level is the one case where the two builds differ; Init keeps
\* those inputs out, see WrapDependent.)
recurse(size, rl, block_index, start_index, current_arrangement) ==
    IF block_index = Len(rl)
    THEN [fault |-> FALSE, sols |-> << current_arrangement >>]
    ELSE
      LET block_length        == rl[block_index + 1]
          space_for_remaining == SpaceForRemaining(rl, block_index)
          latest_start        == LatestStart(size, space_for_remaining, block_length)
      IN  IF latest_start < 0
          THEN Fault
          ELSE PlaceLoop(size, rl, block_index, start_index, latest_start, current_arrangement)

IsZeroRule(rl) == rl = << >> \/ (Len(rl) = 1 /\ rl[1] = 0)

generate_possibilities(size, rl) ==
    IF IsZeroRule(rl)
    THEN [fault |-> FALSE, sols |-> << Repeat(0, size) >>]
    ELSE recurse(size, rl, 0, 0, Repeat(0, size))

----------------------------------------------------------------------------
(* solve_line *)

\* Mutant of Consistent: Crossed cells no longer constrain an arrangement.
Consistent_IgnoringCrossed(n, p, line) ==
    \A i \in 0..(n - 1) : line[i + 1] = Filled => p[i + 1] = 1

\* The filter closure: does arrangement p agree with the known cells of user_line?
Consistent(n, p, line) ==
    \A i \in 0..(n - 1) :
        CASE line[i + 1] = Filled  -> p[i + 1] = 1
          [] line[i + 1] = Crossed -> p[i + 1] = 0
          [] OTHER                 -> TRUE

\* possibilities.into_iter().filter(..).collect()
valid_possibilities(n, sols, line) ==
    SelectSeq(sols, LAMBDA p : Consistent(n, p, line))

\* Mutant of Deduce: the first surviving arrangement decides alone.
Deduce_FirstOnly(valid, line, i) ==
    IF line[i + 1] # Empty THEN line[i + 1]
    ELSE IF valid[1][i + 1] = 1 THEN Filled ELSE Crossed

\* Step 3: the new value of cell i (0-based) given the surviving arrangements.
Deduce(valid, line, i) ==
    IF line[i + 1] # Empty THEN line[i + 1]
    ELSE LET first_state == valid[1][i + 1]
         IN  IF \A k \in 1..Len(valid) : valid[k][i + 1] = first_state
             THEN (IF first_state = 1 THEN Filled ELSE Crossed)
             ELSE Empty

LineOk(line)  == [status |-> "Ok",    line |-> line]
LineErr       == [status |-> "Err",   line |-> << >>]
LinePanic     == [status |-> "Panic", line |-> << >>]

\* Mutant of ZeroRuleLine: every cell crossed without looking for a Filled one.
ZeroRuleLine_NoCheck(n, line) ==
    IF Len(line) < n THEN LinePanic
    ELSE LineOk([k \in 1..Len(line) |-> IF k <= n THEN Crossed ELSE line[k]])

\* The zero-rule branch: for i in 0..line_size, a Filled cell is a contradiction,
\* every other cell becomes Crossed.  user_line[i] is read for every i below
\* line_size, so a shorter user_line is an index panic unless a Filled cell is
\* met first.
ZeroRuleLine(n, line) ==
    IF \E i \in 0..(n - 1) : i < Len(line) /\ line[i + 1] = Filled
    THEN LineErr
    ELSE IF Len(line) < n THEN LinePanic
    ELSE LineOk([k \in 1..Len(line) |-> IF k <= n THEN Crossed ELSE line[k]])

\* Steps 1 to 3: enumerate, filter, intersect.
GeneralLine(n, rl, line) ==
    LET poss == generate_possibilities(n, rl)
    IN  IF poss.fault \/ Len(line) < n THEN LinePanic
        ELSE LET valid == valid_possibilities(n, poss.sols, line)
             IN  IF valid = << >> THEN LineErr
                 ELSE LineOk([k \in 1..Len(line) |->
                                 IF k <= n THEN Deduce(valid, line, k - 1) ELSE line[k]])

\* fn solve_line
solve_line(n, rl, line) ==
    IF IsZeroRule(rl) THEN ZeroRuleLine(n, line) ELSE GeneralLine(n, rl, line)

----------------------------------------------------------------------------
(* transpose *)

transpose(grid) ==
    IF grid = << >> THEN << >>
    ELSE LET nrows == Len(grid)
             ncols == Len(grid[1])
         IN  [cc \in 1..ncols |-> [rr \in 1..nrows |-> grid[rr][cc]]]

----------------------------------------------------------------------------
(* SolveResult and its messages *)

MsgNone      == [kind |-> "none",         index |-> 0]
MsgRow(k)    == [kind |-> "row",          index |-> k]   \* "行 {k}: 入力に矛盾があります"
MsgCol(k)    == [kind |-> "col",          index |-> k]   \* "列 {k}: 入力に矛盾があります"
MsgNoChange  == [kind |-> "NoChange",     index |-> 0]   \* "これ以上自動で確定できるマスはありません"
MsgUpdated   == [kind |-> "Updated",      index |-> 0]   \* "確定できるマスを更新しました"
MsgCap       == [kind |-> "IterationCap", index |-> 0]   \* "反復回数が上限に達しました..."

SolveResult(grid, message, error) == [grid |-> grid, message |-> message, error |-> error]

NoResult == SolveResult(<< >>, MsgNone, FALSE)

----------------------------------------------------------------------------
(* Reference definitions, independent of the enumerator *)

Binary(n) == [1..n -> {0, 1}]

\* Lengths of the maximal runs of 1s of p, left to right.
RECURSIVE RunsFrom(_, _, _)
RunsFrom(p, k, run) ==
    IF k > Len(p) THEN (IF run > 0 THEN << run >> ELSE << >>)
    ELSE IF p[k] = 1 THEN RunsFrom(p, k + 1, run + 1)
    ELSE (IF run > 0 THEN << run >> ELSE << >>) \o RunsFrom(p, k + 1, 0)

Runs(p) == RunsFrom(p, 1, 0)

AllZero(p) == \A k \in 1..Len(p) : p[k] = 0

\* p is an arrangement for the rule: its runs are the rule's blocks in order
\* (all zeros for the empty rule and [0]).
MatchesRule(p, rl) == IF IsZeroRule(rl) THEN AllZero(p) ELSE Runs(p) = rl

\* Cells a rule needs: its blocks plus one separator between consecutive blocks.
Space(rl) == IF rl = << >> THEN 0 ELSE SumSeq(rl) + (Len(rl) - 1)

Positive(rl) == \A k \in 1..Len(rl) : rl[k] > 0

Fits(n, rl) == Space(rl) <= n

\* 1 at every Filled cell and 0 at every Crossed cell of the line
Agrees(p, line) ==
    \A k \in 1..Len(line) : (line[k] = Filled => p[k] = 1) /\ (line[k] = Crossed => p[k] = 0)

\* The arrangements of the rule that agree with the line, by brute force.
Survivors(n, rl, line) == { p \in Binary(n) : MatchesRule(p, rl) /\ Agrees(p, line) }

Count(sols, p) == Cardinality({ k \in 1..Len(sols) : sols[k] = p })

----------------------------------------------------------------------------
(* Inputs *)

\* A zero-length block at a level whose latest_start underflows: a build with
\* overflow checks panics, a build without them loops over the wrapped range.
\* These (size, rule) pairs are kept out of the inputs.
WrapDependent(size, rl) ==
    \E k \in 0..(Len(rl) - 1) : rl[k + 1] = 0 /\ size - SpaceForRemaining(rl, k) < 0

LineRules == SeqsUpTo(0..MaxBlock, MaxClueLen)

PuzzleRules ==
    { << >>, << 0 >> } \cup
    { rl \in SeqsUpTo(1..MaxSpace, MaxSpace) : rl # << >> /\ Space(rl) <= MaxSpace }

Grids(nr, nc) == [1..nr -> [1..nc -> CellState]]

----------------------------------------------------------------------------
(* solve_puzzle *)

max_iterations(nr, nc) == (nr + nc) * 2

\* State at the top of `loop` for an invocation on grid g.
Enter(g) ==
    /\ initial_grid' = g
    /\ original_grid' = g
    /\ current_grid' = g
    /\ transposed' = << >>
    /\ iteration' = 0
    /\ changed_in_this_iteration' = FALSE
    /\ r' = 0
    /\ c' = 0
    /\ pc' = "rows"
    /\ result' = NoResult

\* Mutant of ErrorGrid: the partially updated grid is returned.
ErrorGrid_Partial == current_grid

\* The grid a contradiction returns.
ErrorGrid == original_grid

\* One pass of `for r in 0..rows`.
RowStep ==
    /\ pc = "rows"
    /\ r < rows
    /\ \E res \in {IF r < Len(current_grid)
                  THEN solve_line(cols, row_rules[r + 1], current_grid[r + 1])
                  ELSE LinePanic} :                   \* index out of bounds
           CASE res.status = "Panic" ->
                  /\ pc' = "panic"
                  /\ UNCHANGED << current_grid, changed_in_this_iteration, r, result >>
             [] res.status = "Err" ->
                  /\ result' = SolveResult(ErrorGrid, MsgRow(r + 1), TRUE)
                  /\ pc' = "done"
                  /\ UNCHANGED << current_grid, changed_in_this_iteration, r >>
             [] OTHER ->
                  /\ IF res.line # current_grid[r + 1]
                     THEN /\ current_grid' = [current_grid EXCEPT ![r + 1] = res.line]
                          /\ changed_in_this_iteration' = TRUE
                     ELSE UNCHANGED << current_grid, changed_in_this_iteration >>
                  /\ r' = r + 1
                  /\ UNCHANGED << pc, result >>
    /\ UNCHANGED << rows, cols, row_rules, col_rules, initial_grid, original_grid,
                    transposed, iteration, c, call, first_result, picture >>
    /\ UNCHANGED line_vars

\* let mut transposed = transpose(current_grid.clone());
BeginCols ==
    /\ pc = "rows"
    /\ r = rows
    /\ transposed' = transpose(current_grid)
    /\ c' = 0
    /\ pc' = "cols"
    /\ UNCHANGED << rows, cols, row_rules, col_rules, initial_grid, original_grid,
                    current_grid, iteration, changed_in_this_iteration, r, result,
                    call, first_result, picture >>
    /\ UNCHANGED line_vars

\* One pass of `for c in 0..cols`.
ColStep ==
    /\ pc = "cols"
    /\ c < cols
    /\ \E res \in {IF c < Len(transposed)
                  THEN solve_line(rows, col_rules[c + 1], transposed[c + 1])
                  ELSE LinePanic} :                   \* index out of bounds
           CASE res.status = "Panic" ->
                  /\ pc' = "panic"
                  /\ UNCHANGED << transposed, changed_in_this_iteration, c, result >>
             [] res.status = "Err" ->
                  /\ result' = SolveResult(ErrorGrid, MsgCol(c + 1), TRUE)
                  /\ pc' = "done"
                  /\ UNCHANGED << transposed, changed_in_this_iteration, c >>
             [] OTHER ->
                  /\ IF res.line # transposed[c + 1]
                     THEN /\ transposed' = [transposed EXCEPT ![c + 1] = res.line]
                          /\ changed_in_this_iteration' = TRUE
                     ELSE UNCHANGED << transposed, changed_in_this_iteration >>
                  /\ c' = c + 1
                  /\ UNCHANGED << pc, result >>
    /\ UNCHANGED << rows, cols, row_rules, col_rules, initial_grid, original_grid,
                    current_grid, iteration, r, call, first_result, picture >>
    /\ UNCHANGED line_vars

\* current_grid = transpose(transposed); iteration += 1; the two exit checks.
EndIteration ==
    /\ pc = "cols"
    /\ c = cols
    /\ LET back == transpose(transposed)
       IN  /\ current_grid' = back
           /\ iteration' = iteration + 1
           /\ IF ~changed_in_this_iteration
              THEN /\ result' = SolveResult(back,
                                    IF back = original_grid THEN MsgNoChange ELSE MsgUpdated,
                                    FALSE)
                   /\ pc' = "done"
                   /\ UNCHANGED << changed_in_this_iteration, r >>
              ELSE IF iteration + 1 >= max_iterations(rows, cols)
              THEN /\ result' = SolveResult(back, MsgCap, TRUE)
                   /\ pc' = "done"
                   /\ UNCHANGED << changed_in_this_iteration, r >>
              ELSE /\ changed_in_this_iteration' = FALSE
                   /\ r' = 0
                   /\ pc' = "rows"
                   /\ UNCHANGED result
    /\ UNCHANGED << rows, cols, row_rules, col_rules, initial_grid, original_grid,
                    transposed, c, call, first_result, picture >>
    /\ UNCHANGED line_vars

\* The caller invokes solve_puzzle again with the same dimensions and clues and
\* the grid of the first, successful result as initial_grid.
Reinvoke ==
    /\ pc = "done"
    /\ call = 1
    /\ ~result.error
    /\ call' = 2
    /\ first_result' = result
    /\ Enter(result.grid)
    /\ UNCHANGED << rows, cols, row_rules, col_rules, picture >>
    /\ UNCHANGED line_vars

LineIdle ==
    /\ line_size = 0
    /\ rule = << >>
    /\ user_line = << >>
    /\ possibilities = Fault
    /\ line_result = LinePanic
    /\ enumerated = FALSE
    /\ solved = FALSE

\* The state at the top of `loop` of a first invocation with these arguments.
Invoke(nr, nc, rr, cr, g) ==
    /\ rows = nr
    /\ cols = nc
    /\ row_rules = rr
    /\ col_rules = cr
    /\ initial_grid = g
    /\ original_grid = g
    /\ current_grid = g
    /\ transposed = << >>
    /\ iteration = 0
    /\ changed_in_this_iteration = FALSE
    /\ r = 0
    /\ c = 0
    /\ pc = "rows"
    /\ result = NoResult
    /\ call = 1
    /\ first_result = NoResult
    /\ LineIdle

\* Any dimensions, any rules, any grid of the right shape.
Init ==
    /\ \E nr \in 0..MaxRows, nc \in 0..MaxCols :
         \E rr \in [1..nr -> PuzzleRules], cr \in [1..nc -> PuzzleRules], g \in Grids(nr, nc) :
            Invoke(nr, nc, rr, cr, g)
    /\ picture = << >>

Next ==
    \/ RowStep
    \/ BeginCols
    \/ ColStep
    \/ EndIteration
    \/ Reinvoke

Spec == Init /\ [][Next]_vars

----------------------------------------------------------------------------
(* solve_puzzle on puzzles read off a picture *)

\* Column j (1-based) of a matrix given as a sequence of rows
ColumnOf(T, j) == [i \in 1..Len(T) |-> T[i][j]]

\* The grid that shows the cells in `given` of picture T and leaves the rest Empty.
Reveal(T, nr, nc, given) ==
    [i \in 1..nr |-> [j \in 1..nc |->
        IF << i, j >> \in given THEN (IF T[i][j] = 1 THEN Filled ELSE Crossed) ELSE Empty]]

\* The invocation whose rules are the runs of picture T.
InvokeOnPicture(T, nr, nc, given) ==
    /\ Invoke(nr, nc,
              [i \in 1..nr |-> Runs(T[i])],
              [j \in 1..nc |-> Runs(ColumnOf(T, j))],
              Reveal(T, nr, nc, given))
    /\ picture = T

PictureInit ==
    \E nr \in 1..MaxPicRows, nc \in 1..MaxPicCols :
       \E T \in [1..nr -> Binary(nc)], given \in SUBSET ((1..nr) \X (1..nc)) :
          /\ Cardinality(given) <= MaxGiven
          /\ InvokeOnPicture(T, nr, nc, given)

PictureSpec == PictureInit /\ [][Next]_vars

\* A 16 x 16 picture on which propagation needs exactly (rows + cols) * 2 = 64
\* iterations that each change a cell.
CapPicture ==
    << <<0, 0, 0, 0, 0, 1, 1, 0, 0, 1, 0, 1, 1, 0, 0, 0>>,
       <<0, 1, 1, 0, 1, 1, 1, 1, 0, 1, 1, 0, 0, 1, 0, 0>>,
       <<0, 1, 1, 1, 1, 0, 0, 1, 0, 1, 1, 0, 0, 0, 0, 0>>,
       <<1, 0, 1, 0, 0, 0, 1, 1, 1, 1, 1, 0, 1, 0, 0, 0>>,
       <<1, 1, 1, 0, 0, 1, 0, 0, 0, 0, 0, 0, 1, 0, 0, 1>>,
       <<0, 0, 1, 0, 1, 0, 0, 1, 1, 0, 1, 1, 1, 1, 0, 0>>,
       <<0, 0, 0, 1, 1, 0, 1, 1, 0, 1, 0, 0, 0, 1, 0, 0>>,
       <<0, 1, 1, 0, 1, 0, 0, 0, 0, 0, 0, 1, 0, 0, 1, 1>>,
       <<0, 1, 1, 0, 0, 1, 0, 0, 1, 0, 0, 1, 0, 0, 0, 1>>,
       <<0, 0, 0, 1, 1, 0, 1, 0, 0, 0, 1, 0, 1, 1, 0, 0>>,
       <<1, 0, 0, 1, 0, 0, 1, 0, 0, 1, 1, 0, 0, 1, 1, 1>>,
       <<0, 0, 0, 1, 1, 0, 0, 1, 1, 0, 1, 1, 0, 0, 0, 1>>,
       <<1, 1, 0, 1, 0, 0, 0, 0, 0, 1, 1, 0, 0, 1, 1, 0>>,
       <<1, 0, 1, 0, 1, 0, 1, 1, 0, 1, 1, 0, 1, 0, 0, 0>>,
       <<0, 0, 1, 1, 0, 1, 0, 0, 1, 0, 0, 1, 0, 0, 0, 1>>,
       <<0, 1, 0, 0, 0, 1, 0, 1, 0, 0, 1, 0, 0, 0, 1, 0>> >>

\* The cells of CapPicture that the caller supplies as already known.
CapGiven ==
    { <<1, 1>>, <<1, 14>>, <<2, 11>>, <<4, 2>>, <<4, 5>>, <<4, 7>>,
      <<5, 7>>, <<6, 1>>, <<6, 2>>, <<6, 9>>, <<7, 1>>, <<7, 4>>,
      <<7, 16>>, <<9, 16>>, <<10, 4>>, <<11, 7>>, <<11, 10>>, <<12, 8>>,
      <<12, 14>>, <<13, 6>>, <<13, 7>>, <<13, 9>>, <<14, 1>>, <<14, 3>>,
      <<14, 14>>, <<14, 15>>, <<15, 13>>, <<16, 4>>, <<16, 7>>, <<16, 11>>,
      <<16, 13>> }

\* solve_puzzle invoked on CapPicture with the cells of CapGiven known, or on a
\* picture of at most MaxRows x MaxCols with no cell known.
CapInit ==
    \/ InvokeOnPicture(CapPicture, Len(CapPicture), Len(CapPicture[1]), CapGiven)
    \/ \E nr \in 1..MaxRows, nc \in 1..MaxCols :
          \E T \in [1..nr -> Binary(nc)] : InvokeOnPicture(T, nr, nc, {})

CapSpec == CapInit /\ [][Next]_vars

----------------------------------------------------------------------------
(* One line: generate_possibilities and solve_line on a drawn input *)

PuzzleIdle ==
    /\ rows = 0
    /\ cols = 0
    /\ row_rules = << >>
    /\ col_rules = << >>
    /\ initial_grid = << >>
    /\ original_grid = << >>
    /\ current_grid = << >>
    /\ transposed = << >>
    /\ iteration = 0
    /\ changed_in_this_iteration = FALSE
    /\ r = 0
    /\ c = 0
    /\ pc = "idle"
    /\ result = NoResult
    /\ call = 1
    /\ first_result = NoResult
    /\ picture = << >>

LineInit ==
    /\ line_size \in 0..MaxLineSize
    /\ rule \in LineRules
    /\ ~WrapDependent(line_size, rule)
    /\ user_line \in SeqsOfLen(CellState, line_size)
    /\ possibilities = Fault
    /\ line_result = LinePanic
    /\ enumerated = FALSE
    /\ solved = FALSE
    /\ PuzzleIdle

Enumerate ==
    /\ ~enumerated
    /\ possibilities' = generate_possibilities(line_size, rule)
    /\ enumerated' = TRUE
    /\ UNCHANGED << line_size, rule, user_line, line_result, solved >>
    /\ UNCHANGED puzzle_vars

SolveLine ==
    /\ pc = "idle"
    /\ ~solved
    /\ line_result' = solve_line(line_size, rule, user_line)
    /\ solved' = TRUE
    /\ UNCHANGED << line_size, rule, user_line, possibilities, enumerated >>
    /\ UNCHANGED puzzle_vars

LineNext ==
    \/ Enumerate
    \/ SolveLine

LineSpec == LineInit /\ [][LineNext]_vars

----------------------------------------------------------------------------
(* Claims about one line (checked under LineSpec) *)

InScopeC1 == IsZeroRule(rule) \/ (Positive(rule) /\ Fits(line_size, rule))

\* C1: for a rule that is empty, [0], or positive blocks that fit, solve_line
\* signals Contradiction exactly when no arrangement of the rule agrees with the
\* known cells; otherwise Filled and Crossed cells are unchanged and an Empty cell
\* becomes Filled if every surviving arrangement has 1 there, Crossed if every one
\* has 0 there, and stays Empty if they disagree.
C1_SolveLineMatchesReference ==
    (solved /\ InScopeC1) =>
        LET S == Survivors(line_size, rule, user_line)
        IN  IF S = {} THEN line_result.status = "Err"
            ELSE /\ line_result.status = "Ok"
                 /\ Len(line_result.line) = line_size
                 /\ \A k \in 1..line_size :
                       line_result.line[k] =
                          IF user_line[k] # Empty THEN user_line[k]
                          ELSE IF \A p \in S : p[k] = 1 THEN Filled
                          ELSE IF \A p \in S : p[k] = 0 THEN Crossed
                          ELSE Empty

\* C1 witness: a positive rule with several blocks, a line with known cells, and a
\* result that fills one Empty cell, crosses another and leaves a third Empty.
C1_Witness ==
    /\ solved
    /\ Positive(rule) /\ Len(rule) >= 2 /\ Fits(line_size, rule)
    /\ line_result.status = "Ok"
    /\ \E k \in 1..line_size : user_line[k] # Empty
    /\ \E k \in 1..line_size : user_line[k] = Empty /\ line_result.line[k] = Filled
    /\ \E k \in 1..line_size : user_line[k] = Empty /\ line_result.line[k] = Crossed
    /\ \E k \in 1..line_size : user_line[k] = Empty /\ line_result.line[k] = Empty

\* C1 witness of the other branch is part of the same reachable set: a
\* contradiction on a rule that fits.
C1_ContradictionReached ==
    solved /\ Positive(rule) /\ Fits(line_size, rule) /\ line_result.status = "Err"

\* C5 (as claimed): for a rule whose required space exceeds line_size the
\* enumerator returns an empty list and does not fault.
C5_ImpossibleClueYieldsEmpty ==
    (enumerated /\ ~IsZeroRule(rule) /\ ~Fits(line_size, rule)) =>
        (~possibilities.fault /\ possibilities.sols = << >>)

\* What the code does instead: every such call panics.
C5_ImpossibleClueFaults ==
    (enumerated /\ ~IsZeroRule(rule) /\ ~Fits(line_size, rule)) => possibilities.fault

Sound(p, n, rl) ==
    /\ Len(p) = n
    /\ \A k \in 1..Len(p) : p[k] \in {0, 1}
    /\ MatchesRule(p, rl)

\* C6 (as claimed): for every rule, zero blocks among several included, every
\* returned arrangement has length line_size, holds only 0/1 and has the rule's
\* blocks as its maximal runs.
C6_SoundForEveryRule ==
    (enumerated /\ ~possibilities.fault) =>
        \A k \in 1..Len(possibilities.sols) : Sound(possibilities.sols[k], line_size, rule)

\* C6 (amended): the same for rules that are empty, [0], or made of positive blocks.
C6_SoundForPositiveRules ==
    (enumerated /\ ~possibilities.fault /\ (IsZeroRule(rule) \/ Positive(rule))) =>
        \A k \in 1..Len(possibilities.sols) : Sound(possibilities.sols[k], line_size, rule)

\* C6 witness: a rule of several positive blocks with slack, several arrangements returned.
C6_Witness ==
    /\ enumerated /\ ~possibilities.fault
    /\ Positive(rule) /\ Len(rule) >= 2
    /\ Len(possibilities.sols) >= 3

NoDuplicates(sols) == \A j, k \in 1..Len(sols) : j # k => sols[j] # sols[k]

----------------------------------------------------------------------------
(* Claims about solve_puzzle (checked under Spec) *)

Running == pc \in {"rows", "cols"}

\* Cell (i, j), 1-based, of the grid the loop is working on: current_grid in the
\* row phase, transposed (read by column) in the column phase.
WorkCell(i, j) == IF pc = "cols" THEN transposed[j][i] ELSE current_grid[i][j]

Cells == (1..rows) \X (1..cols)

Shape(g, nr, nc) == Len(g) = nr /\ \A k \in 1..Len(g) : Len(g[k]) = nc

ContradictionReported == pc = "done" /\ result.error /\ result.message.kind \in {"row", "col"}

\* C2: when a solve_line call signals Contradiction, in whatever iteration,
\* solve_puzzle ends at once with error = true, the grid it received at invocation
\* and a message naming that line by kind and 1-based index; nothing runs after.
C2_ContradictionReturnsOriginalGrid ==
    /\ [][ (pc = "rows" /\ r < rows /\ r < Len(current_grid)
              /\ solve_line(cols, row_rules[r + 1], current_grid[r + 1]).status = "Err")
           => (pc' = "done" /\ result' = SolveResult(initial_grid, MsgRow(r + 1), TRUE)) ]_vars
    /\ [][ (pc = "cols" /\ c < cols /\ c < Len(transposed)
              /\ solve_line(rows, col_rules[c + 1], transposed[c + 1]).status = "Err")
           => (pc' = "done" /\ result' = SolveResult(initial_grid, MsgCol(c + 1), TRUE)) ]_vars
    /\ [][ ~(pc = "done" /\ result.error) ]_vars
    /\ [](ContradictionReported => result.grid = initial_grid)

\* C2 witness: a column contradiction reported in a later iteration, after cells
\* were deduced, so that the returned grid differs from the working grid.
C2_Witness ==
    /\ ContradictionReported
    /\ result.message.kind = "col"
    /\ iteration >= 1
    /\ current_grid # initial_grid
    /\ result.grid = initial_grid

\* C3: while one call runs, a Filled or Crossed cell of the working grid keeps its
\* value in every step, so the only transitions are Empty -> Filled and
\* Empty -> Crossed; the grid returned on success or at the iteration cap carries
\* the last working grid and so agrees with the initial grid on its known cells.
C3_Monotone ==
    /\ [][ (Running /\ pc' \in {"rows", "cols"})
           => \A ij \in Cells :
                 WorkCell(ij[1], ij[2]) # Empty
                    => WorkCell(ij[1], ij[2])' = WorkCell(ij[1], ij[2]) ]_vars
    /\ [][ (Running /\ pc' = "done" /\ result'.message.kind \in {"NoChange", "Updated", "IterationCap"})
           => \A ij \in Cells :
                 WorkCell(ij[1], ij[2]) # Empty
                    => result'.grid[ij[1]][ij[2]] = WorkCell(ij[1], ij[2]) ]_vars
    /\ []( (pc = "done" /\ result.message.kind \in {"NoChange", "Updated", "IterationCap"})
           => \A ij \in Cells :
                 initial_grid[ij[1]][ij[2]] # Empty
                    => result.grid[ij[1]][ij[2]] = initial_grid[ij[1]][ij[2]] )

\* C3 witness: a successful result in which a given Filled cell and a given
\* Crossed cell survive beside cells deduced in more than one iteration.
C3_Witness ==
    /\ pc = "done" /\ ~result.error /\ call = 1
    /\ iteration >= 2
    /\ \E ij \in Cells : initial_grid[ij[1]][ij[2]] = Filled
    /\ \E ij \in Cells : initial_grid[ij[1]][ij[2]] = Crossed
    /\ \E ij \in Cells : initial_grid[ij[1]][ij[2]] = Empty /\ result.grid[ij[1]][ij[2]] # Empty

\* C4 (as claimed): a second call on the grid of a successful first call ends with
\* error = false, the same grid, and the "unchanged since invocation" message.
C4_Idempotent ==
    (call = 2 /\ pc \in {"done", "panic"}) =>
        /\ pc = "done"
        /\ ~result.error
        /\ result.grid = first_result.grid
        /\ result.message = MsgNoChange

\* The same restricted to grids with at least one row and one column.
C4_IdempotentNonDegenerate ==
    (call = 2 /\ pc \in {"done", "panic"} /\ rows >= 1 /\ cols >= 1) =>
        /\ pc = "done"
        /\ ~result.error
        /\ result.grid = first_result.grid
        /\ result.message = MsgNoChange

\* C8 (as claimed): the working grid is rows x cols in the row phase, cols x rows
\* in the column phase, and every returned grid is rows x cols, degenerate
\* dimensions included.
C8_GridShape ==
    /\ pc = "rows" => Shape(current_grid, rows, cols)
    /\ pc = "cols" => Shape(transposed, cols, rows)
    /\ pc = "done" => Shape(result.grid, rows, cols)

\* The same restricted to grids with at least one row and one column.
C8_GridShapeNonDegenerate ==
    (rows >= 1 /\ cols >= 1) => C8_GridShape

\* C9 (as claimed): no invocation ends in the iteration-cap result; every run
\* reaches an iteration that changes no cell, or a contradiction, first.
C9_CapUnreachable == ~(pc = "done" /\ result.message = MsgCap)

\* When the iteration-cap result is produced, the grid it carries is not the grid
\* received: the iterations counted against the cap each changed a cell.
C9_CapAfterProgress ==
    (pc = "done" /\ result.message = MsgCap) =>
        /\ result.error
        /\ iteration = (rows + cols) * 2
        /\ result.grid # initial_grid

\* The complete assignments that satisfy every row rule and every column rule and
\* agree with the known cells of the initial grid.
Solutions ==
    { T \in [1..rows -> Binary(cols)] :
        /\ \A i \in 1..rows : MatchesRule(T[i], row_rules[i])
        /\ \A j \in 1..cols : MatchesRule(ColumnOf(T, j), col_rules[j])
        /\ \A ij \in Cells :
              /\ initial_grid[ij[1]][ij[2]] = Filled  => T[ij[1]][ij[2]] = 1
              /\ initial_grid[ij[1]][ij[2]] = Crossed => T[ij[1]][ij[2]] = 0 }

AllRulesFit ==
    /\ \A i \in 1..rows : Fits(cols, row_rules[i])
    /\ \A j \in 1..cols : Fits(rows, col_rules[j])

CellAgrees(v, t) == (v = Filled => t = 1) /\ (v = Crossed => t = 0)

\* C10: when all rules fit and the puzzle has a solution T that agrees with the
\* initial grid, no contradiction is reported and every Filled / Crossed cell of
\* every working grid and of the returned grid is filled / unfilled in T.
\* Under PictureSpec every pair (puzzle, solution T agreeing with its givens) is an
\* initial state, with T held in `picture`.
C10_SoundForSolutions ==
    /\ AllRulesFit
    /\ picture \in Solutions
    /\ ~ContradictionReported
    /\ Running => \A ij \in Cells : CellAgrees(WorkCell(ij[1], ij[2]), picture[ij[1]][ij[2]])
    /\ pc = "done" =>
          /\ Shape(result.grid, rows, cols)
          /\ \A ij \in Cells : CellAgrees(result.grid[ij[1]][ij[2]], picture[ij[1]][ij[2]])

\* C10 witness: a puzzle with two solutions, solved to a fixed point that leaves
\* the cells on which they differ Empty and marks a cell on which they agree.
C10_Witness ==
    /\ pc = "done" /\ ~result.error /\ call = 1
    /\ AllRulesFit
    /\ Cardinality(Solutions) >= 2
    /\ \E ij \in Cells : initial_grid[ij[1]][ij[2]] = Empty /\ result.grid[ij[1]][ij[2]] # Empty
    /\ \E ij \in Cells : result.grid[ij[1]][ij[2]] = Empty

=============================================================================
